---- MODULE Spec2Model ----
(***************************************************************************)
(* Model of the block time-step rung scheduler (sph/ts_rungs.hpp) and of   *)
(* the N-body propagator's macro-step (NbodyProp::step), each run by a set *)
(* of MPI ranks, and of NbodyProp::prepareOutput on one rank.              *)
(*                                                                         *)
(* computeRungTimestep is modelled in its device instantiation             *)
(* (IsDeviceVector<AccVec> true): the per-group timesteps are only ever    *)
(* computed, sorted and searched on the device (groupDivvTimestep,         *)
(* groupAccTimestep, sortGroupDt, timestepRangeGpu, lowerBoundGpu). In the *)
(* host instantiation neither constexpr branch runs and minGroupDt is read *)
(* without ever being written.                                             *)
(* Timesteps are positive multiples of a quantum, so that the float        *)
(* products (1 << rung) * minDt and the comparisons are exact; the ratio   *)
(* refDt / minDt stays far below the float range. A timestep of 0 is not   *)
(* modelled: the code divides by the reduced minimum.                      *)
(***************************************************************************)
EXTENDS Integers, Sequences, FiniteSets, TLC

\* ------------------------------------------------------------------ bounds

\* number of MPI ranks; rank 0 is the root of the reductions
NumWorkers == 2
\* total number of groups over all ranks
MaxGroups == 4
\* largest number of particle slots of the dataset prepareOutput is called on
MaxParticles == 4
\* largest group count timestepRangeGpu is applied to on its own
MaxCount == 60
\* per-group timestep values (in quanta) the group-timestep kernels produce
DtValues == {1, 3, 8, 16}
\* what domain.syncGrav may leave behind: <<startIndex, endIndex, nParticlesWithHalos>>
Layouts == {<<0, 3, 3>>, <<0, 2, 3>>, <<1, 3, 4>>, <<1, 1, 2>>, <<0, 0, 1>>, <<2, 2, 2>>}
\* what a read of a float or counter that was never written may return
Garbage == {0, 99}
\* what the device buffer may hold at groupDt[0] when the rank has no group
StaleDt == {1, 16}

Workers == 0 .. (NumWorkers - 1)

\* Timestep::maxNumRungs (sph/timestep.h)
maxNumRungs == 4

VARIABLES
    \* ---- computeRungTimestep, per rank
    inputDt,       \* the per-group timesteps as handed to computeRungTimestep
    groupDt,       \* device array groupDt[0 .. numGroups-1] (sorted in place)
    groupIndices,  \* device array groupIndices[0 .. numGroups-1]
    minGroupDt,    \* local <<minimum, fast-fraction reference>>
    minDtGlobal,   \* receive buffer of the all-reduce
    ts,            \* the Timestep returned
    rpc,           \* position inside computeRungTimestep
    sendBufs,      \* the send buffers the rank handed to its all-reduces, one per call
    firstRun,      \* the Timestep and the array the rank's first call left behind
    \* ---- NbodyProp::step, per rank
    spc,           \* position inside step
    phases,        \* the phases of step the rank has carried out, in order
    first,         \* domain.startIndex()
    last,          \* domain.endIndex()
    total,         \* domain.nParticlesWithHalos()
    m,             \* d.m
    ax, ay, az,    \* d.ax, d.ay, d.az
    egrav,         \* d.egrav
    stats,         \* mHolder_.readStats()
    maxP2Pglobal,  \* receive buffer of the statistics reduction
    sentEnergy,    \* send buffers of the energy reduction that reached the root
    sentP2P,       \* send buffers of the statistics reduction that reached the root
    logged,        \* the lines written to std::cout
    trav,          \* what the traversal of this step's particles yields on each rank
    \* ---- NbodyProp::prepareOutput, one rank
    haveGpu,       \* an accelerator backend is active
    hostData,      \* d.data(): the host arrays, by field name
    devData,       \* d.devData.data(): the device arrays, by field name
    outCall,       \* <<first, last>> of the latest prepareOutput call
    \* ---- timestepRangeGpu, applied on its own
    rangeIn,       \* the sorted device array it is given
    rangeOut       \* the pair it returns; <<0, 0>> before the call

rungVars == <<inputDt, groupDt, groupIndices, minGroupDt, minDtGlobal, ts, rpc,
              sendBufs, firstRun>>
stepVars == <<spc, phases, first, last, total, m, ax, ay, az, egrav, stats,
              maxP2Pglobal, sentEnergy, sentP2P, logged, trav>>
outVars == <<haveGpu, hostData, devData, outCall>>
rangeVars == <<rangeIn, rangeOut>>
vars == <<rungVars, stepVars, outVars, rangeVars>>

\* ----------------------------------------------------------------- helpers

MinOf(S) == CHOOSE x \in S : \A y \in S : x <= y
MaxOf(S) == CHOOSE x \in S : \A y \in S : x >= y

RECURSIVE Pow2(_)
Pow2(n) == IF n <= 0 THEN 1 ELSE 2 * Pow2(n - 1)

\* grp.numGroups
numGroups(w) == Len(inputDt[w])

\* ------------------------------------------------------ ts_rungs.hpp

\* cstone::sequenceGpu(groupIndices, numGroups, 0u): 0, 1, ..., numGroups-1
sequenceGpu(n) == [i \in 1 .. n |-> i - 1]

\* insert the pair kv behind every pair of s whose key is <= kv's key
RECURSIVE insertByKey(_, _)
insertByKey(s, kv) ==
    IF s = <<>> THEN <<kv>>
    ELSE IF kv[1] < Head(s)[1] THEN <<kv>> \o s
    ELSE <<Head(s)>> \o insertByKey(Tail(s), kv)

\* cstone::sortByKeyGpu: sort the <<key, value>> pairs by key, ascending; pairs
\* with equal keys keep their order (the radix sort of the device library)
RECURSIVE sortByKeyGpu(_)
sortByKeyGpu(kvs) ==
    IF kvs = <<>> THEN <<>>
    ELSE insertByKey(sortByKeyGpu(SubSeq(kvs, 1, Len(kvs) - 1)), kvs[Len(kvs)])

\* mutant: groupIndices is not reset to 0, 1, ... before the sort
sortGroupDt_noSequence(dt) ==
    LET n      == Len(dt)
        sorted == sortByKeyGpu([i \in 1 .. n |-> <<dt[i], 0>>])
    IN  [keys |-> [i \in 1 .. n |-> sorted[i][1]],
         vals |-> [i \in 1 .. n |-> sorted[i][2]]]

\* sortGroupDt: returns the sorted keys and the permutation
sortGroupDt(dt) ==
    LET n      == Len(dt)
        idx    == sequenceGpu(n)
        sorted == sortByKeyGpu([i \in 1 .. n |-> <<dt[i], idx[i]>>])
    IN  [keys |-> [i \in 1 .. n |-> sorted[i][1]],
         vals |-> [i \in 1 .. n |-> sorted[i][2]]]

\* mutant: the index is taken at the complementary fraction
fastIndex_slowFraction(tenths, n) == ((10 - tenths) * n) \div 10

\* cstone::LocalIndex(fastFraction * numGroups) with fastFraction = tenths / 10
fastIndex(tenths, n) == (tenths * n) \div 10

\* timestepRangeGpu: groupDt[0] and groupDt[LocalIndex(fastFraction * numGroups)].
\* With numGroups = 0 both reads are of groupDt + 0, one past the (empty) array:
\* they return whatever the device buffer holds there, oob.
timestepRangeGpu(dt, n, tenths, oob) ==
    IF n = 0 THEN <<oob, oob>>
    ELSE <<dt[1], dt[fastIndex(tenths, n) + 1]>>

\* minGroupDt = timestepRangeGpu(groupDt, grp.numGroups, 0.4), on a sorted array
RangeApply ==
    /\ rangeOut = <<0, 0>>
    /\ rangeOut' = timestepRangeGpu(rangeIn, Len(rangeIn), 4, 0)
    /\ UNCHANGED <<rangeIn, rungVars, stepVars, outVars>>

\* mutant: the reduction is called with MPI_MAX
mpiAllreduceMin_asMax(send) ==
    <<MaxOf({send[w][1] : w \in Workers}), MaxOf({send[w][2] : w \in Workers})>>

\* mpiAllreduce(.., MPI_MIN) over two floats: the element-wise minimum over the
\* send buffers of all ranks
mpiAllreduceMin(send) ==
    <<MinOf({send[w][1] : w \in Workers}), MinOf({send[w][2] : w \in Workers})>>

\* floor(log2(num / den)) for num >= den > 0
RECURSIVE floorLog2(_, _)
floorLog2(num, den) == IF 2 * den <= num THEN 1 + floorLog2(num, 2 * den) ELSE 0

\* mutant: the logarithm is rounded up
intLog2_roundUp(num, den) ==
    IF num >= den
    THEN floorLog2(num, den) + (IF Pow2(floorLog2(num, den)) * den = num THEN 0 ELSE 1)
    ELSE 0 - floorLog2(den, num)

\* int(log2(num / den)) for positive num, den: the conversion truncates towards 0
intLog2(num, den) ==
    IF num >= den THEN floorLog2(num, den) ELSE 0 - floorLog2(den, num)

\* mutant: the rung count is not capped at Timestep::maxNumRungs
numRungsOf_noCap(g) == intLog2(g[2], g[1]) + 1

\* mutant: the + 1 is missing
numRungsOf_noPlusOne(g) ==
    LET l == intLog2(g[2], g[1])
    IN  IF l < maxNumRungs THEN l ELSE maxNumRungs

\* std::min(int(log2(minDtGlobal[1] / minDtGlobal[0])) + 1, Timestep::maxNumRungs)
numRungsOf(g) ==
    LET l == intLog2(g[2], g[1]) + 1
    IN  IF l < maxNumRungs THEN l ELSE maxNumRungs

\* cstone::lowerBoundGpu(first, last, value): index of the first element that is
\* not less than value, or last - first if there is none
lowerBoundGpu(dt, value) ==
    LET ge == {i \in 1 .. Len(dt) : dt[i] >= value}
    IN  IF ge = {} THEN Len(dt) ELSE MinOf(ge) - 1

\* mutant: the shift is one too large
maxDtRung_doubled(rung, minDt) == Pow2(rung + 1) * minDt

\* mutant: the shift is one too small
maxDtRung_halved(rung, minDt) == Pow2(rung - 1) * minDt

\* float maxDtRung = (1 << rung) * minDtGlobal[0]
maxDtRung(rung, minDt) == Pow2(rung) * minDt

\* rungRanges{0}; fill(begin + 1, end, numGroups); the loop over 1 <= rung < numRungs
rungRangesOf(dt, n, numRungs, minDt) ==
    [r \in 0 .. maxNumRungs |->
        IF r = 0 THEN 0
        ELSE IF r < numRungs THEN lowerBoundGpu(dt, maxDtRung(r, minDt))
        ELSE n]

NoTimestep == [minDt |-> 0, numRungs |-> 0, substep |-> 0,
               rungRanges |-> [r \in 0 .. maxNumRungs |-> 0],
               dt_drift |-> [r \in 1 .. maxNumRungs |-> 0]]

\* mutant: the local range is read before the array is sorted
RungEnter_rangeBeforeSort(w) ==
    /\ rpc[w] = "start"
    /\ numGroups(w) > 0
    /\ LET s == sortGroupDt(groupDt[w])
       IN  /\ groupDt' = [groupDt EXCEPT ![w] = s.keys]
           /\ groupIndices' = [groupIndices EXCEPT ![w] = s.vals]
           /\ minGroupDt' = [minGroupDt EXCEPT
                  ![w] = timestepRangeGpu(groupDt[w], numGroups(w), 4, 0)]
           /\ sendBufs' = [sendBufs EXCEPT ![w] = Append(@, minGroupDt'[w])]
           /\ rpc' = [rpc EXCEPT ![w] = "allreduce"]
    /\ UNCHANGED <<inputDt, minDtGlobal, ts, firstRun, stepVars, outVars, rangeVars>>

\* computeRungTimestep up to the all-reduce: sort, local range, enter the collective.
\* A rank with numGroups = 0 does the same; its two reads are out of bounds and
\* either return the stale float oob or make the device copy fail.
RungEnter(w) ==
    /\ rpc[w] = "start"
    /\ LET s == sortGroupDt(groupDt[w])
       IN  /\ groupDt' = [groupDt EXCEPT ![w] = s.keys]
           /\ groupIndices' = [groupIndices EXCEPT ![w] = s.vals]
           /\ \/ /\ numGroups(w) > 0
                 /\ minGroupDt' = [minGroupDt EXCEPT
                        ![w] = timestepRangeGpu(s.keys, numGroups(w), 4, 0)]
                 /\ sendBufs' = [sendBufs EXCEPT ![w] = Append(@, minGroupDt'[w])]
                 /\ rpc' = [rpc EXCEPT ![w] = "allreduce"]
              \/ /\ numGroups(w) = 0
                 /\ \E oob \in StaleDt :
                        minGroupDt' = [minGroupDt EXCEPT
                            ![w] = timestepRangeGpu(s.keys, numGroups(w), 4, oob)]
                 /\ sendBufs' = [sendBufs EXCEPT ![w] = Append(@, minGroupDt'[w])]
                 /\ rpc' = [rpc EXCEPT ![w] = "allreduce"]
              \/ /\ numGroups(w) = 0
                 /\ minGroupDt' = minGroupDt
                 /\ sendBufs' = sendBufs
                 /\ rpc' = [rpc EXCEPT ![w] = "fault"]
    /\ UNCHANGED <<inputDt, minDtGlobal, ts, firstRun, stepVars, outVars, rangeVars>>

\* the rank's k-th all-reduce completes once every rank has entered its k-th; then
\* numRungs, the rung ranges and the returned Timestep
RungReturn(w) ==
    /\ rpc[w] = "allreduce"
    /\ \A v \in Workers : Len(sendBufs[v]) >= Len(sendBufs[w])
    /\ LET g  == mpiAllreduceMin([v \in Workers |-> sendBufs[v][Len(sendBufs[w])]])
           nr == numRungsOf(g)
       IN  /\ minDtGlobal' = [minDtGlobal EXCEPT ![w] = g]
           /\ ts' = [ts EXCEPT ![w] =
                  [minDt      |-> g[1],
                   numRungs   |-> nr,
                   substep    |-> 0,
                   rungRanges |-> rungRangesOf(groupDt[w], numGroups(w), nr, g[1]),
                   dt_drift   |-> [r \in 1 .. maxNumRungs |-> 0]]]
    /\ rpc' = [rpc EXCEPT ![w] = "done"]
    /\ UNCHANGED <<inputDt, groupDt, groupIndices, minGroupDt, sendBufs, firstRun, stepVars, outVars, rangeVars>>

\* the caller calls computeRungTimestep a second time, with the arrays as the
\* first call left them
RungAgain(w) ==
    /\ rpc[w] = "done"
    /\ Len(sendBufs[w]) = 1
    /\ firstRun' = [firstRun EXCEPT ![w] = [ts |-> ts[w], groupDt |-> groupDt[w]]]
    /\ rpc' = [rpc EXCEPT ![w] = "start"]
    /\ UNCHANGED <<inputDt, groupDt, groupIndices, minGroupDt, minDtGlobal, ts, sendBufs,
                   stepVars, outVars, rangeVars>>

\* ------------------------------------------------------ NbodyProp::step

rootRank == 0

\* marks a receive buffer that was never written
Uninit == 0 - 1

\* the phases of step, in program order
PhaseOrder == <<"sync", "resize", "reset", "upsweep", "barrier", "traverse",
                "reduceEnergy", "reduceStats", "diagnostics">>

\* how far a rank is inside step
Pos(pc) ==
    CASE pc = "start"        -> 0
      [] pc = "sync"         -> 1
      [] pc = "resize"       -> 2
      [] pc = "reset"        -> 3
      [] pc = "upsweep"      -> 4
      [] pc = "barrier"      -> 5
      [] pc = "traverse"     -> 6
      [] pc = "reduceEnergy" -> 7
      [] pc = "reduceStats"  -> 8
      [] pc = "diag"         -> 9
      [] OTHER               -> 10

RECURSIVE SumOver(_, _)
SumOver(f, S) ==
    IF S = {} THEN 0
    ELSE LET x == CHOOSE y \in S : TRUE IN f[x] + SumOver(f, S \ {x})

\* fill(array, lo, hi, value): array[lo .. hi-1] = value (indices from 0)
fill(arr, lo, hi, value) ==
    [i \in 1 .. Len(arr) |-> IF lo <= i - 1 /\ i - 1 < hi THEN value ELSE arr[i]]

\* mutant: the padding value is read at index 0 instead of index first
massAtFirst_atZero(mw, f, oob) == IF 0 < Len(mw) THEN mw[1] ELSE oob

\* d.m[first]; with first = d.m.size() the read is one past the end and returns oob
massAtFirst(mw, f, oob) == IF f < Len(mw) THEN mw[f + 1] ELSE oob

\* mutant: the root keeps its own value
mpiReduceSum_ownOnly(own, sent) == own

\* MPI_Reduce(.., MPI_SUM, rootRank, ..) at the root: its own value plus the others'
mpiReduceSum(own, sent) == own + SumOver(sent, Workers \ {rootRank})

\* mutant: the reduction is called with MPI_MIN
mpiReduceMax_asMin(own, sent) == MinOf({own} \cup {sent[v] : v \in Workers \ {rootRank}})

\* MPI_Reduce(.., MPI_MAX, rootRank, ..) at the root
mpiReduceMax(own, sent) == MaxOf({own} \cup {sent[v] : v \in Workers \ {rootRank}})

\* timer.start(); sync(domain, simData): the rank enters the domain synchronisation
StepBegin(w) ==
    /\ spc[w] = "start"
    /\ spc' = [spc EXCEPT ![w] = "sync"]
    /\ UNCHANGED <<phases, first, last, total, m, ax, ay, az, egrav, stats,
                   maxP2Pglobal, sentEnergy, sentP2P, logged, trav, rungVars, outVars, rangeVars>>

\* domain.syncGrav returns once every rank has entered it. It leaves the new
\* layout and arrays of the halo-inclusive length: slot i holds mass i + 1 (all
\* masses distinct, so that every copy shows), and the dependent fields hold
\* what the exchange used them for.
SyncReturn(w) ==
    /\ spc[w] = "sync"
    /\ \A v \in Workers : spc[v] # "start"
    /\ \E lay \in Layouts :
          /\ first' = [first EXCEPT ![w] = lay[1]]
          /\ last'  = [last EXCEPT ![w] = lay[2]]
          /\ total' = [total EXCEPT ![w] = lay[3]]
          /\ m'  = [m EXCEPT ![w] = [i \in 1 .. lay[3] |-> i]]
          /\ ax' = [ax EXCEPT ![w] = [i \in 1 .. lay[3] |-> 10 + i]]
          /\ ay' = [ay EXCEPT ![w] = [i \in 1 .. lay[3] |-> 20 + i]]
          /\ az' = [az EXCEPT ![w] = [i \in 1 .. lay[3] |-> 30 + i]]
    /\ phases' = [phases EXCEPT ![w] = Append(@, "sync")]
    /\ spc' = [spc EXCEPT ![w] = "resize"]
    /\ UNCHANGED <<egrav, stats, maxP2Pglobal, sentEnergy, sentP2P, logged, trav,
                   rungVars, outVars, rangeVars>>

\* d.resize(nParticlesWithHalos); transferToHost(m[first]); the two fills of m
ResizePad(w) ==
    /\ spc[w] = "resize"
    /\ \E oob \in Garbage :
          LET v == massAtFirst(m[w], first[w], oob)
          IN  m' = [m EXCEPT ![w] = fill(fill(@, 0, first[w], v), last[w], total[w], v)]
    /\ phases' = [phases EXCEPT ![w] = Append(@, "resize")]
    /\ spc' = [spc EXCEPT ![w] = "reset"]
    /\ UNCHANGED <<first, last, total, ax, ay, az, egrav, stats, maxP2Pglobal,
                   sentEnergy, sentP2P, logged, trav, rungVars, outVars, rangeVars>>

\* mutant: the accelerations are zeroed over the halo slots too
ResetAcc_withHalos(w) ==
    /\ spc[w] = "reset"
    /\ ax' = [ax EXCEPT ![w] = fill(@, 0, total[w], 0)]
    /\ ay' = [ay EXCEPT ![w] = fill(@, 0, total[w], 0)]
    /\ az' = [az EXCEPT ![w] = fill(@, 0, total[w], 0)]
    /\ phases' = [phases EXCEPT ![w] = Append(@, "reset")]
    /\ spc' = [spc EXCEPT ![w] = "upsweep"]
    /\ UNCHANGED <<first, last, total, m, egrav, stats, maxP2Pglobal,
                   sentEnergy, sentP2P, logged, trav, rungVars, outVars, rangeVars>>

\* fill(ax | ay | az, first, last, 0.0)
ResetAcc(w) ==
    /\ spc[w] = "reset"
    /\ ax' = [ax EXCEPT ![w] = fill(@, first[w], last[w], 0)]
    /\ ay' = [ay EXCEPT ![w] = fill(@, first[w], last[w], 0)]
    /\ az' = [az EXCEPT ![w] = fill(@, first[w], last[w], 0)]
    /\ phases' = [phases EXCEPT ![w] = Append(@, "reset")]
    /\ spc' = [spc EXCEPT ![w] = "upsweep"]
    /\ UNCHANGED <<first, last, total, m, egrav, stats, maxP2Pglobal,
                   sentEnergy, sentP2P, logged, trav, rungVars, outVars, rangeVars>>

\* mutant: the barrier call is missing
Upsweep_noBarrier(w) ==
    /\ spc[w] = "upsweep"
    /\ phases' = [phases EXCEPT ![w] = Append(@, "upsweep")]
    /\ spc' = [spc EXCEPT ![w] = "traverse"]
    /\ UNCHANGED <<first, last, total, m, ax, ay, az, egrav, stats, maxP2Pglobal,
                   sentEnergy, sentP2P, logged, trav, rungVars, outVars, rangeVars>>

\* mHolder_.upsweep(d, domain); then the rank enters MPI_Barrier
Upsweep(w) ==
    /\ spc[w] = "upsweep"
    /\ phases' = [phases EXCEPT ![w] = Append(@, "upsweep")]
    /\ spc' = [spc EXCEPT ![w] = "barrier"]
    /\ UNCHANGED <<first, last, total, m, ax, ay, az, egrav, stats, maxP2Pglobal,
                   sentEnergy, sentP2P, logged, trav, rungVars, outVars, rangeVars>>

\* mutant: the barrier lets a rank through without waiting for the others
BarrierReturn_noWait(w) ==
    /\ spc[w] = "barrier"
    /\ phases' = [phases EXCEPT ![w] = Append(@, "barrier")]
    /\ spc' = [spc EXCEPT ![w] = "traverse"]
    /\ UNCHANGED <<first, last, total, m, ax, ay, az, egrav, stats, maxP2Pglobal,
                   sentEnergy, sentP2P, logged, trav, rungVars, outVars, rangeVars>>

\* MPI_Barrier(MPI_COMM_WORLD) returns once every rank has entered it
BarrierReturn(w) ==
    /\ spc[w] = "barrier"
    /\ \A v \in Workers : Pos(spc[v]) >= Pos("barrier")
    /\ phases' = [phases EXCEPT ![w] = Append(@, "barrier")]
    /\ spc' = [spc EXCEPT ![w] = "traverse"]
    /\ UNCHANGED <<first, last, total, m, ax, ay, az, egrav, stats, maxP2Pglobal,
                   sentEnergy, sentP2P, logged, trav, rungVars, outVars, rangeVars>>

\* mHolder_.traverse(d, domain): the potential energy and the interaction counters
Traverse(w) ==
    /\ spc[w] = "traverse"
    /\ egrav' = [egrav EXCEPT ![w] = trav[w].egrav]
    /\ stats' = [stats EXCEPT ![w] = trav[w].stats]
    /\ phases' = [phases EXCEPT ![w] = Append(@, "traverse")]
    /\ spc' = [spc EXCEPT ![w] = "reduceEnergy"]
    /\ UNCHANGED <<first, last, total, m, ax, ay, az, maxP2Pglobal,
                   sentEnergy, sentP2P, logged, trav, rungVars, outVars, rangeVars>>

\* double globalEnergy = 0; MPI_Reduce(&d.egrav, &globalEnergy, .., MPI_SUM, rootRank);
\* d.egrav = globalEnergy. The root waits for every contribution; the other ranks
\* hand theirs over and go on with globalEnergy as it was.
ReduceEnergy(w) ==
    /\ spc[w] = "reduceEnergy"
    /\ IF w = rootRank
       THEN /\ \A v \in Workers \ {rootRank} : Pos(spc[v]) > Pos("reduceEnergy")
            /\ egrav' = [egrav EXCEPT ![w] = mpiReduceSum(egrav[w], sentEnergy)]
            /\ sentEnergy' = sentEnergy
       ELSE /\ sentEnergy' = [sentEnergy EXCEPT ![w] = egrav[w]]
            /\ egrav' = [egrav EXCEPT ![w] = 0]
    /\ phases' = [phases EXCEPT ![w] = Append(@, "reduceEnergy")]
    /\ spc' = [spc EXCEPT ![w] = "reduceStats"]
    /\ UNCHANGED <<first, last, total, m, ax, ay, az, stats, maxP2Pglobal,
                   sentP2P, logged, trav, rungVars, outVars, rangeVars>>

\* uint64_t maxP2Pglobal; MPI_Reduce(&stats[1], &maxP2Pglobal, .., MPI_MAX, rootRank)
ReduceStats(w) ==
    /\ spc[w] = "reduceStats"
    /\ IF w = rootRank
       THEN /\ \A v \in Workers \ {rootRank} : Pos(spc[v]) > Pos("reduceStats")
            /\ maxP2Pglobal' = [maxP2Pglobal EXCEPT ![w] = mpiReduceMax(stats[w][2], sentP2P)]
            /\ sentP2P' = sentP2P
       ELSE /\ sentP2P' = [sentP2P EXCEPT ![w] = stats[w][2]]
            /\ maxP2Pglobal' = maxP2Pglobal
    /\ phases' = [phases EXCEPT ![w] = Append(@, "reduceStats")]
    /\ spc' = [spc EXCEPT ![w] = "diag"]
    /\ UNCHANGED <<first, last, total, m, ax, ay, az, egrav, stats,
                   sentEnergy, logged, trav, rungVars, outVars, rangeVars>>

\* the line written to std::cout
logLine(st, n, glob) ==
    [numP2P |-> st[1] \div n, maxP2P |-> st[2], numM2P |-> st[3] \div n,
     maxM2P |-> st[4], maxP2Pglobal |-> glob]

\* if (domain.startIndex() == 0) { n = last - first; std::cout << stats[0] / n ... };
\* timer.stop(). With n = 0 the two divisions are by zero: the rank traps, or the
\* quotient is 0. A maxP2Pglobal that was never written prints as anything.
Diagnostics(w) ==
    /\ spc[w] = "diag"
    /\ phases' = [phases EXCEPT ![w] = Append(@, "diagnostics")]
    /\ \/ /\ first[w] # 0
          /\ logged' = logged
          /\ spc' = [spc EXCEPT ![w] = "done"]
       \/ /\ first[w] = 0
          /\ last[w] - first[w] > 0
          /\ \E glob \in (IF maxP2Pglobal[w] = Uninit THEN Garbage ELSE {maxP2Pglobal[w]}) :
                logged' = [logged EXCEPT
                    ![w] = Append(@, logLine(stats[w], last[w] - first[w], glob))]
          /\ spc' = [spc EXCEPT ![w] = "done"]
       \/ /\ first[w] = 0
          /\ last[w] - first[w] = 0
          /\ logged' = logged
          /\ spc' = [spc EXCEPT ![w] = "fault"]
       \/ /\ first[w] = 0
          /\ last[w] - first[w] = 0
          /\ \E glob \in (IF maxP2Pglobal[w] = Uninit THEN Garbage ELSE {maxP2Pglobal[w]}) :
                logged' = [logged EXCEPT
                    ![w] = Append(@, [logLine(stats[w], 1, glob) EXCEPT
                                         !.numP2P = 0, !.numM2P = 0])]
          /\ spc' = [spc EXCEPT ![w] = "done"]
    /\ UNCHANGED <<first, last, total, m, ax, ay, az, egrav, stats, maxP2Pglobal,
                   sentEnergy, sentP2P, trav, rungVars, outVars, rangeVars>>

\* ------------------------------------------------ NbodyProp::prepareOutput

\* using ConservedFields = FieldList<>
ConservedFields == {}

\* using DependentFields = FieldList<"ax", "ay", "du", "az">
DependentFields == {"ax", "ay", "du", "az"}

\* mutant: a dependent field is listed among the conserved ones
conservedFields_withAx == {"x", "y", "z", "h", "m", "ax"} \cup ConservedFields

\* conservedFields(): x, y, z, h, m and the ConservedFields list
conservedFields == {"x", "y", "z", "h", "m"} \cup ConservedFields

\* the fields activateFields sets up, on the host and on the device
ActiveFields == conservedFields \cup {"keys"} \cup DependentFields

\* transferToHost(d, first, last, fields): with an accelerator, the device's
\* entries [first, last) of each listed field are copied over the host's;
\* without one there is nothing to transfer
transferToHost(host, dev, gpu, lo, hi, fields) ==
    IF gpu
    THEN [f \in DOMAIN host |->
            IF f \in fields
            THEN [i \in 1 .. Len(host[f]) |->
                    IF lo <= i - 1 /\ i - 1 < hi THEN dev[f][i] ELSE host[f][i]]
            ELSE host[f]]
    ELSE host

\* prepareOutput(simData, first, last, box)
PrepareOutput(lo, hi) ==
    /\ hostData' = transferToHost(hostData, devData, haveGpu, lo, hi, conservedFields)
    /\ outCall' = <<lo, hi>>
    /\ UNCHANGED <<haveGpu, devData, rungVars, stepVars, rangeVars>>

\* the inputs: a sequence of at most MaxGroups timesteps, cut into one piece per rank
CutsOf(t) == {c \in [0 .. NumWorkers -> 0 .. t] :
                 /\ c[0] = 0
                 /\ c[NumWorkers] = t
                 /\ \A w \in Workers : c[w] <= c[w + 1]}

RungIdle ==
    /\ inputDt = [w \in Workers |-> <<>>]
    /\ groupDt = inputDt
    /\ groupIndices = [w \in Workers |-> <<>>]
    /\ minGroupDt = [w \in Workers |-> <<0, 0>>]
    /\ minDtGlobal = [w \in Workers |-> <<0, 0>>]
    /\ ts = [w \in Workers |-> NoTimestep]
    /\ rpc = [w \in Workers |-> "start"]
    /\ sendBufs = [w \in Workers |-> <<>>]
    /\ firstRun = [w \in Workers |-> [ts |-> NoTimestep, groupDt |-> <<>>]]

\* the potential energies and the p2p maxima a traversal leaves on three ranks
EnergyTable == <<0 - 1, 0 - 2, 0 - 4>>
StatTable == <<10, 25, 7>>

\* the traversal's results per rank: the tables above, rotated over the ranks
TraverseOutcomes ==
    {[w \in Workers |->
        LET j == ((w + k) % 3) + 1
        IN  [egrav |-> EnergyTable[j],
             stats |-> <<6 * StatTable[j], StatTable[j], 2 * StatTable[j], StatTable[j]>>]]
     : k \in 0 .. 2}

StepIdle(outcomes) ==
    /\ spc = [w \in Workers |-> "start"]
    /\ phases = [w \in Workers |-> <<>>]
    /\ first = [w \in Workers |-> 0]
    /\ last = [w \in Workers |-> 0]
    /\ total = [w \in Workers |-> 0]
    /\ m = [w \in Workers |-> <<>>]
    /\ ax = [w \in Workers |-> <<>>]
    /\ ay = [w \in Workers |-> <<>>]
    /\ az = [w \in Workers |-> <<>>]
    /\ egrav = [w \in Workers |-> 0]
    /\ stats = [w \in Workers |-> <<0, 0, 0, 0>>]
    /\ maxP2Pglobal = [w \in Workers |-> Uninit]
    /\ sentEnergy = [w \in Workers |-> 0]
    /\ sentP2P = [w \in Workers |-> 0]
    /\ logged = [w \in Workers |-> <<>>]
    /\ trav \in outcomes

\* prepareOutput not called
OutIdle ==
    /\ haveGpu = FALSE
    /\ hostData = [f \in ActiveFields |-> <<>>]
    /\ devData = [f \in ActiveFields |-> <<>>]
    /\ outCall = <<0, 0>>

\* timestepRangeGpu not applied on its own
RangeIdle ==
    /\ rangeIn = <<>>
    /\ rangeOut = <<0, 0>>

RungInit ==
    /\ \E t \in 0 .. MaxGroups : \E all \in [1 .. t -> DtValues] : \E c \in CutsOf(t) :
          inputDt = [w \in Workers |-> SubSeq(all, c[w] + 1, c[w + 1])]
    /\ groupDt = inputDt
    /\ groupIndices = [w \in Workers |-> [i \in 1 .. Len(inputDt[w]) |-> 0]]
    /\ minGroupDt = [w \in Workers |-> <<0, 0>>]
    /\ minDtGlobal = [w \in Workers |-> <<0, 0>>]
    /\ ts = [w \in Workers |-> NoTimestep]
    /\ rpc = [w \in Workers |-> "start"]
    /\ sendBufs = [w \in Workers |-> <<>>]
    /\ firstRun = [w \in Workers |-> [ts |-> NoTimestep, groupDt |-> <<>>]]
    /\ StepIdle({CHOOSE o \in TraverseOutcomes : TRUE})
    /\ OutIdle
    /\ RangeIdle

RungNext == \E w \in Workers : RungEnter(w) \/ RungReturn(w)

\* computeRungTimestep on every rank
SpecRung == RungInit /\ [][RungNext]_vars

RerunNext == \E w \in Workers : RungEnter(w) \/ RungReturn(w) \/ RungAgain(w)

\* the second call is followed for the inputs computeRungTimestep is written for:
\* every rank has at least one group
RerunInit == RungInit /\ \A w \in Workers : Len(inputDt[w]) >= 1

\* computeRungTimestep on every rank, called twice in a row
SpecRerun == RerunInit /\ [][RerunNext]_vars

StepInit == RungIdle /\ StepIdle(TraverseOutcomes) /\ OutIdle /\ RangeIdle

StepNext ==
    \E w \in Workers :
        \/ StepBegin(w)
        \/ SyncReturn(w)
        \/ ResizePad(w)
        \/ ResetAcc(w)
        \/ Upsweep(w)
        \/ BarrierReturn(w)
        \/ Traverse(w)
        \/ ReduceEnergy(w)
        \/ ReduceStats(w)
        \/ Diagnostics(w)

\* one macro-step of NbodyProp::step on every rank
SpecStep == StepInit /\ [][StepNext]_vars

\* what rank w can do next inside step
RankStep(w) ==
    \/ StepBegin(w)
    \/ SyncReturn(w)
    \/ ResizePad(w)
    \/ ResetAcc(w)
    \/ Upsweep(w)
    \/ BarrierReturn(w)
    \/ Traverse(w)
    \/ ReduceEnergy(w)
    \/ ReduceStats(w)
    \/ Diagnostics(w)

\* every rank is a running process: a rank that can go on inside step does, and
\* a collective that every rank has entered returns
SpecStepFair == SpecStep /\ \A w \in Workers : WF_vars(RankStep(w))

\* a dataset of n particle slots: with an accelerator the current values live on
\* the device (slot i of the k-th field holds 10 * k + i) and the host arrays are
\* stale (0); without one the host arrays are the data
OutInit ==
    /\ RungIdle
    /\ StepIdle({CHOOSE o \in TraverseOutcomes : TRUE})
    /\ haveGpu \in BOOLEAN
    /\ \E n \in 1 .. MaxParticles :
          LET code  == [f \in ActiveFields |->
                          CHOOSE k \in 1 .. 10 :
                              <<"x", "y", "z", "h", "m", "keys", "ax", "ay", "du", "az">>[k] = f]
              fresh == [f \in ActiveFields |-> [i \in 1 .. n |-> 10 * code[f] + i]]
              stale == [f \in ActiveFields |-> [i \in 1 .. n |-> 0]]
          IN  /\ hostData = IF haveGpu THEN stale ELSE fresh
              /\ devData = IF haveGpu THEN fresh ELSE [f \in ActiveFields |-> <<>>]
    /\ outCall = <<0, 0>>
    /\ RangeIdle

\* the callers pass a range inside the arrays
OutNext ==
    \E lo \in 0 .. MaxParticles : \E hi \in lo .. MaxParticles :
        /\ hi <= Len(hostData["m"])
        /\ PrepareOutput(lo, hi)

\* prepareOutput, called any number of times on one rank
SpecOutput == OutInit /\ [][OutNext]_vars

\* a sorted array of 1 .. MaxCount group timesteps: all distinct (1, 2, 3, ...),
\* in pairs (1, 1, 2, 2, ...) or all equal
RangeInit ==
    /\ RungIdle
    /\ StepIdle({CHOOSE o \in TraverseOutcomes : TRUE})
    /\ OutIdle
    /\ \E n \in 1 .. MaxCount :
          rangeIn \in {[i \in 1 .. n |-> i], [i \in 1 .. n |-> (i + 1) \div 2],
                       [i \in 1 .. n |-> 3]}
    /\ rangeOut = <<0, 0>>

RangeNext == RangeApply

\* timestepRangeGpu on one sorted array
SpecRange == RangeInit /\ [][RangeNext]_vars

\* ------------------------------------------------------------ properties

\* every rank has at least one group: the input computeRungTimestep is written for
AllRanksHaveGroups == \A w \in Workers : numGroups(w) >= 1

\* the per-group timesteps of all ranks
AllInputDt == {inputDt[w][i] : <<w, i>> \in {<<v, j>> \in Workers \X (1 .. MaxGroups) :
                                               j <= Len(inputDt[v])}}

\* the 1-based rung of the group at sorted position i (from 1) of rank w
InRung(w, i, r) ==
    /\ r <= ts[w].numRungs
    /\ ts[w].rungRanges[r - 1] <= i - 1
    /\ i - 1 < ts[w].rungRanges[r]

RungStepWithinGroupLimit ==
    AllRanksHaveGroups =>
        \A w \in Workers : rpc[w] = "done" =>
            \A i \in 1 .. numGroups(w) : \A r \in 1 .. maxNumRungs :
                InRung(w, i, r) =>
                    Pow2(r - 1) * ts[w].minDt <= inputDt[w][groupIndices[w][i] + 1]

\* a group that the sort moved sits in rung 2 or above
RungStepWitness ==
    /\ AllRanksHaveGroups
    /\ \E w \in Workers :
          /\ rpc[w] = "done"
          /\ \E i \in 1 .. numGroups(w) : \E r \in 2 .. maxNumRungs :
                /\ InRung(w, i, r)
                /\ groupIndices[w][i] # i - 1

\* C3: on every rank the returned minDt is the minimum of the per-group timesteps
\* of all ranks.
MinDtIsGlobalMinimum ==
    AllRanksHaveGroups =>
        \A w \in Workers : rpc[w] = "done" => ts[w].minDt = MinOf(AllInputDt)

\* a rank returned a minDt that is smaller than each of its own timesteps
MinDtWitness ==
    /\ AllRanksHaveGroups
    /\ \E w \in Workers :
          /\ rpc[w] = "done"
          /\ numGroups(w) >= 2
          /\ \A i \in 1 .. numGroups(w) : ts[w].minDt < inputDt[w][i]

\* C4: a rank without groups contributes +infinity to the reduction, so the
\* reduced pair is that of the ranks that have groups.
EmptyRankContributesSentinel ==
    \A w \in Workers :
        (rpc[w] = "done" /\ \E v \in Workers : numGroups(v) >= 1) =>
            LET have == {v \in Workers : numGroups(v) >= 1}
            IN  minDtGlobal[w] = <<MinOf({minGroupDt[v][1] : v \in have}),
                                   MinOf({minGroupDt[v][2] : v \in have})>>

\* C5: a rank whose input violates the precondition (no group) stops before it
\* enters the all-reduce.
InvalidInputStopsBeforeCollective ==
    \A w \in Workers : numGroups(w) = 0 => rpc[w] \in {"start", "fault"}

\* rank w has carried out the phase
HasDone(w, phase) == \E i \in 1 .. Len(phases[w]) : phases[w][i] = phase

\* C6: no rank has begun its traversal unless every rank has finished its upsweep.
BarrierSeparatesUpsweepFromTraverse ==
    \A w \in Workers : HasDone(w, "traverse") =>
        \A v \in Workers : HasDone(v, "upsweep")

\* one rank has traversed while another has not yet left the barrier
BarrierWitness ==
    \E w, v \in Workers : HasDone(w, "traverse") /\ spc[v] = "barrier"

\* C7: the phases a rank has carried out are a prefix of sync, resize, reset,
\* upsweep, barrier, traverse, energy reduction, statistics reduction,
\* diagnostics; a rank at the end of step has carried out each exactly once.
PhasesInProgramOrder ==
    \A w \in Workers :
        /\ Len(phases[w]) <= Len(PhaseOrder)
        /\ phases[w] = SubSeq(PhaseOrder, 1, Len(phases[w]))
        /\ spc[w] = "done" => phases[w] = PhaseOrder

\* every rank is at the end of step
PhasesWitness == \A w \in Workers : spc[w] = "done" /\ phases[w] = PhaseOrder

\* the sum of the ranks' potential energies of this step
TotalEnergy == SumOver([v \in Workers |-> trav[v].egrav], Workers)

\* C8 as stated: after the reduction d.egrav is the total on every rank.
EnergyTotalOnEveryRank ==
    \A w \in Workers : Pos(spc[w]) > Pos("reduceEnergy") => egrav[w] = TotalEnergy

\* C8 as amended: after the reduction d.egrav is the total on the root and 0 on
\* every other rank.
EnergyTotalOnRoot ==
    \A w \in Workers : Pos(spc[w]) > Pos("reduceEnergy") =>
        egrav[w] = IF w = rootRank THEN TotalEnergy ELSE 0

\* the root holds the total, which is not its own contribution
EnergyWitness ==
    /\ Pos(spc[rootRank]) > Pos("reduceEnergy")
    /\ egrav[rootRank] = TotalEnergy
    /\ egrav[rootRank] # trav[rootRank].egrav

\* C9: Resize & pad sets every mass outside [first, last) to the mass at index
\* first and leaves the masses inside [first, last) as they were.
PadReplicatesFirstMass ==
    [][\A w \in Workers :
         (spc[w] = "resize" /\ spc'[w] = "reset" /\ first[w] < total[w]) =>
            \A i \in 1 .. total[w] :
                m'[w][i] = IF first[w] <= i - 1 /\ i - 1 < last[w]
                           THEN m[w][i]
                           ELSE m[w][first[w] + 1]]_vars

\* a rank with halos on both sides has been padded
PadWitness ==
    \E w \in Workers :
        /\ spc[w] = "reset"
        /\ 0 < first[w] /\ first[w] + 1 < last[w] /\ last[w] < total[w]
        /\ m[w][1] = m[w][first[w] + 1]
        /\ m[w][total[w]] = m[w][first[w] + 1]
        /\ m[w][last[w]] # m[w][first[w] + 1]

\* all groups of all ranks have the same timestep
AllGroupsEqual == \A x, y \in AllInputDt : x = y

RerunIsIdempotent ==
    AllRanksHaveGroups =>
        \A w \in Workers : (Len(sendBufs[w]) = 2 /\ rpc[w] = "done") =>
            /\ ts[w] = firstRun[w].ts
            /\ groupDt[w] = firstRun[w].groupDt

\* a rank whose input was not sorted, with two rungs or more, has returned from
\* its second call
RerunWitness ==
    /\ AllRanksHaveGroups
    /\ \E w \in Workers :
          /\ Len(sendBufs[w]) = 2
          /\ rpc[w] = "done"
          /\ inputDt[w] # groupDt[w]
          /\ ts[w].numRungs >= 2

\* the largest particle-particle maximum any rank's traversal counted
GlobalMaxP2P == MaxOf({trav[v].stats[2] : v \in Workers})

\* C12: at the end of step the root of the reductions, rank 0, has logged one
\* line, whose global maximum is the reduced value, and no other rank has logged.
LoggedByRootOnly ==
    \A w \in Workers : spc[w] = "done" =>
        IF w = rootRank
        THEN /\ Len(logged[w]) = 1
             /\ logged[w][1].maxP2Pglobal = GlobalMaxP2P
        ELSE logged[w] = <<>>

\* C13: no rank faults in the diagnostics phase, whatever the domain left,
\* an empty owned range (first = last) included.
DiagnosticsNeverFaults == \A w \in Workers : spc[w] # "fault"

PrepareOutputFrame ==
    [][/\ devData' = devData
       /\ \A f \in DOMAIN hostData : \A i \in 1 .. Len(hostData[f]) :
             hostData'[f][i] =
                 IF /\ haveGpu
                    /\ f \in {"x", "y", "z", "h", "m"}
                    /\ outCall'[1] <= i - 1
                    /\ i - 1 < outCall'[2]
                 THEN devData[f][i]
                 ELSE hostData[f][i]]_vars

\* after prepareOutput(1, 3) the host has the device's m at indices 1 and 2, not
\* at index 0, and its ax is still stale
PrepareOutputWitness ==
    /\ haveGpu
    /\ outCall = <<1, 3>>
    /\ hostData["m"][2] = devData["m"][2]
    /\ hostData["m"][3] = devData["m"][3]
    /\ hostData["m"][1] # devData["m"][1]
    /\ hostData["ax"][2] # devData["ax"][2]

GlobalMinDt == MinOf(AllInputDt)
GlobalRefDt == MinOf({groupDt[v][((4 * numGroups(v)) \div 10) + 1] : v \in Workers})

\* C17: numRungs = min(floor(log2(refDt / minDt)) + 1, maxNumRungs): below the cap
\* numRungs - 1 is the k with 2^k * minDt <= refDt < 2^(k+1) * minDt, and at the
\* cap 2^(maxNumRungs-1) * minDt <= refDt; minDt and refDt are the minima over
\* the ranks of the local minimum and of the local value at the 0.4 index.
NumRungsIsLogOfRange ==
    AllRanksHaveGroups =>
        \A w \in Workers : rpc[w] = "done" =>
            /\ ts[w].minDt = GlobalMinDt
            /\ ts[w].numRungs \in 1 .. maxNumRungs
            /\ Pow2(ts[w].numRungs - 1) * GlobalMinDt <= GlobalRefDt
            /\ ts[w].numRungs < maxNumRungs =>
                   GlobalRefDt < Pow2(ts[w].numRungs) * GlobalMinDt

\* a rank returned two rungs, from a reference that is another rank's and is
\* not a power of two times the minimum
NumRungsWitness ==
    /\ AllRanksHaveGroups
    /\ \E w \in Workers :
          /\ rpc[w] = "done"
          /\ ts[w].numRungs = 2
          /\ GlobalRefDt < groupDt[w][((4 * numGroups(w)) \div 10) + 1]
          /\ 2 * GlobalMinDt < GlobalRefDt

\* C18: once a rank has sorted, its timestep array is ascending, groupIndices is
\* a permutation of 0 .. numGroups-1, the value at position i is the original
\* timestep of group groupIndices[i], and groups with equal timesteps are in
\* their original order.
SortIsStablePermutation ==
    \A w \in Workers : rpc[w] # "start" =>
        /\ Len(groupDt[w]) = numGroups(w)
        /\ Len(groupIndices[w]) = numGroups(w)
        /\ {groupIndices[w][i] : i \in 1 .. numGroups(w)} = 0 .. (numGroups(w) - 1)
        /\ \A i \in 1 .. numGroups(w) :
              groupDt[w][i] = inputDt[w][groupIndices[w][i] + 1]
        /\ \A i, j \in 1 .. numGroups(w) : i < j =>
              /\ groupDt[w][i] <= groupDt[w][j]
              /\ groupDt[w][i] = groupDt[w][j] => groupIndices[w][i] < groupIndices[w][j]

\* a rank has sorted an input whose first group was not the smallest and that
\* held two equal timesteps apart from each other
SortWitness ==
    \E w \in Workers :
        /\ rpc[w] # "start"
        /\ numGroups(w) >= 3
        /\ groupIndices[w][1] # 0
        /\ \E i \in 1 .. (numGroups(w) - 1) :
              /\ groupDt[w][i] = groupDt[w][i + 1]
              /\ groupIndices[w][i] + 1 < groupIndices[w][i + 1]

\* C19: the Reset accumulators phase sets ax, ay and az to 0 at every index of
\* [first, last) and leaves every entry outside [first, last) as it was.
ResetZeroesOwnedRangeOnly ==
    [][\A w \in Workers : (spc[w] = "reset" /\ spc'[w] = "upsweep") =>
          \A i \in 1 .. total[w] :
              LET owned == first[w] <= i - 1 /\ i - 1 < last[w]
              IN  /\ ax'[w][i] = IF owned THEN 0 ELSE ax[w][i]
                  /\ ay'[w][i] = IF owned THEN 0 ELSE ay[w][i]
                  /\ az'[w][i] = IF owned THEN 0 ELSE az[w][i]]_vars

\* a rank with halo slots on both sides has reset: zeros inside the owned
\* range, what the sync left in the halo slots
ResetWitness ==
    \E w \in Workers :
        /\ spc[w] = "upsweep"
        /\ 0 < first[w] /\ first[w] + 1 < last[w] /\ last[w] < total[w]
        /\ ax[w][first[w] + 1] = 0 /\ ay[w][last[w]] = 0 /\ az[w][last[w]] = 0
        /\ ax[w][first[w]] # 0 /\ ay[w][total[w]] # 0 /\ az[w][1] # 0

\* C20: the ranks issue the same collectives in the same order, so once every
\* rank has started the step, every rank eventually reaches the end of the step.
EveryRankFinishesStep ==
    (\A w \in Workers : spc[w] # "start") ~> (\A w \in Workers : spc[w] = "done")

\* C21: for numGroups >= 1 the reference is read at the index k = trunc(0.4 *
\* numGroups), which lies in [0, numGroups); it is therefore an element of the
\* sorted array and not below the minimum at index 0; for numGroups 1 or 2 the
\* index is 0 and the reference is the minimum.
FastIndexInsideArray ==
    rangeOut # <<0, 0>> =>
        LET n == Len(rangeIn)
        IN  /\ rangeOut[1] = rangeIn[1]
            /\ \E k \in 0 .. (n - 1) :
                  /\ 10 * k <= 4 * n
                  /\ 4 * n < 10 * (k + 1)
                  /\ rangeOut[2] = rangeIn[k + 1]
            /\ rangeOut[2] >= rangeOut[1]
            /\ n <= 2 => rangeOut[2] = rangeOut[1]

\* the call on the largest array of distinct timesteps returned a reference
\* from index 0.4 * MaxCount, above the minimum
FastIndexWitness ==
    /\ Len(rangeIn) = MaxCount
    /\ rangeOut[1] = 1
    /\ rangeOut[2] = ((4 * MaxCount) \div 10) + 1

====
